---- MODULE Spec2Model ----
(***************************************************************************)
(* Model of the NDN workspace file system provider (ndnWorkspaceFs.ts) and *)
(* of its offset <-> line/character translator                             *)
(* (stringPositionCalculator.ts).                                          *)
(*                                                                         *)
(* A text is a sequence of one-character strings.  The specifications      *)
(* share the variables:                                                    *)
(*   SpecCalc    the pure position translator on bounded texts,            *)
(*   SpecFs      the file operations of the provider (stat, readDirectory, *)
(*               readFile, createDirectory, writeFile, delete, rename),    *)
(*   Spec        the synchronisation engine: the observeDeep handler, the  *)
(*               onDidChangeTextDocument handler, the host editor and the  *)
(*               remote peers,                                             *)
(*   SpecLocal   the listener on buffers with \n or \r\n line endings,     *)
(*   SpecNotify  the observeDeep handler on batches of several events,     *)
(*   SpecLife    the sessions: ndnws.init, ndnws.reset and the listeners   *)
(*               they leave registered.                                    *)
(***************************************************************************)
EXTENDS Integers, Sequences, FiniteSets, TLC

\* ------------------------------------------------------------------ bounds
\* longest text of the translator specification
MaxCalcLen == 4
\* longest replicated text / buffer of the engine specification
MaxLen == 2
\* number of remote transactions of a behaviour
MaxRemote == 2
\* number of user edits of a behaviour
MaxUser == 1

CR == "\r"
LF == "\n"
Chars == {"a", CR, LF}
\* the characters of the replicated text and the buffer
EngChars == {"a", LF}

RECURSIVE TextsOfLen(_)
TextsOfLen(n) ==
  IF n = 0 THEN {<<>>}
  ELSE {Append(t, c) : t \in TextsOfLen(n - 1), c \in Chars}

RECURSIVE TextsUpTo(_)
TextsUpTo(n) == IF n = 0 THEN TextsOfLen(0) ELSE TextsOfLen(n) \cup TextsUpTo(n - 1)

RECURSIVE EngTextsOfLen(_)
EngTextsOfLen(n) ==
  IF n = 0 THEN {<<>>}
  ELSE {Append(t, c) : t \in EngTextsOfLen(n - 1), c \in EngChars}

RECURSIVE EngTextsUpTo(_)
EngTextsUpTo(n) ==
  IF n = 0 THEN EngTextsOfLen(0) ELSE EngTextsOfLen(n) \cup EngTextsUpTo(n - 1)

Min(a, b) == IF a < b THEN a ELSE b

Pos(l, c) == [line |-> l, character |-> c]

\* lexicographic order of positions (vscode.Position.isBefore)
PosBefore(p, q) ==
  \/ p.line < q.line
  \/ p.line = q.line /\ p.character < q.character

\* ------------------------------------------------- StringPositionCalculator
\* text.charAt(i) for a 0-based i
charAt(text, i) == text[i + 1]

\* a slip of the scan: every \r ends a line, also the \r of a \r\n pair
ScanStepDouble(text, i, p) ==
  IF charAt(text, i) \in {CR, LF}
    THEN Pos(p.line + 1, 0)
    ELSE Pos(p.line, p.character + 1)

\* One iteration of the scan loop: the (line, character) after character i.
ScanStep(text, i, p) ==
  IF charAt(text, i) = CR
    THEN IF ~(i + 1 < Len(text) /\ charAt(text, i + 1) = LF)
           THEN Pos(p.line + 1, 0)
           ELSE p
    ELSE IF charAt(text, i) = LF
           THEN Pos(p.line + 1, 0)
           ELSE Pos(p.line, p.character + 1)

RECURSIVE ToIndexLoop(_, _, _, _)
ToIndexLoop(text, position, i, p) ==
  IF ~(i < Len(text)) THEN Len(text)
  ELSE IF p.line = position.line /\ p.character = position.character THEN i
  ELSE ToIndexLoop(text, position, i + 1, ScanStep(text, i, p))

\* a slip of the scan: the target is tested after the step, not before it
RECURSIVE ToIndexLoopLate(_, _, _, _)
ToIndexLoopLate(text, position, i, p) ==
  IF ~(i < Len(text)) THEN Len(text)
  ELSE LET q == ScanStep(text, i, p) IN
       IF q.line = position.line /\ q.character = position.character THEN i
       ELSE ToIndexLoopLate(text, position, i + 1, q)

lineAndCharacterToIndexLate(text, position) ==
  ToIndexLoopLate(text, position, 0, Pos(0, 0))

\* a slip of the scan: a target never met answered with -1, as a search does
RECURSIVE ToIndexLoopMiss(_, _, _, _)
ToIndexLoopMiss(text, position, i, p) ==
  IF ~(i < Len(text)) THEN -1
  ELSE IF p.line = position.line /\ p.character = position.character THEN i
  ELSE ToIndexLoopMiss(text, position, i + 1, ScanStep(text, i, p))

lineAndCharacterToIndexMiss(text, position) ==
  ToIndexLoopMiss(text, position, 0, Pos(0, 0))

lineAndCharacterToIndex(text, position) ==
  ToIndexLoop(text, position, 0, Pos(0, 0))

\* a slip of the scan: the \r of a \r\n pair counted as a terminator too
RECURSIVE ToPositionLoopDouble(_, _, _, _)
ToPositionLoopDouble(text, position, i, p) ==
  IF ~(i < Min(Len(text), position)) THEN p
  ELSE ToPositionLoopDouble(text, position, i + 1,
         IF charAt(text, i) \in {CR, LF}
           THEN Pos(p.line + 1, 0)
           ELSE Pos(p.line, p.character + 1))

indexToLineAndCharacterDouble(text, position) ==
  ToPositionLoopDouble(text, position, 0, Pos(0, 0))

RECURSIVE ToPositionLoop(_, _, _, _)
ToPositionLoop(text, position, i, p) ==
  IF ~(i < Min(Len(text), position)) THEN p
  ELSE ToPositionLoop(text, position, i + 1, ScanStep(text, i, p))

\* a slip of the scan: the loop bound one too far, the character at the
\* offset scanned too
indexToLineAndCharacterInclusive(text, position) ==
  ToPositionLoop(text, position + 1, 0, Pos(0, 0))

indexToLineAndCharacter(text, position) ==
  ToPositionLoop(text, position, 0, Pos(0, 0))

\* offset i lies between the \r and the \n of a \r\n pair
MidCRLF(text, i) ==
  /\ 0 < i
  /\ i < Len(text)
  /\ text[i] = CR
  /\ text[i + 1] = LF

VARIABLES calcText, calcOut

calcVars == <<calcText, calcOut>>

NoCalc == [op |-> "none", offset |-> 0, pos |-> Pos(0, 0), back |-> 0]

CalcIdle ==
  /\ calcText = <<>>
  /\ calcOut = NoCalc

InitCalc ==
  /\ calcText \in TextsUpTo(MaxCalcLen)
  /\ calcOut = NoCalc

\* ------------------------------------------------------------ the item tree
\* project.Items: a flat map of items keyed by id.  The tree is one root
\* folder holding a text item, a folder and a blob, in that stored order.
RootId == "root"
TextId == "i1"
NoItem == "none"

ItemIds == {RootId, TextId, "i2", "i3"}

Item(id) ==
  CASE id = RootId -> [kind |-> "folder", name |-> "", parentId |-> NoItem,
                       items |-> <<TextId, "i2", "i3">>]
    [] id = TextId -> [kind |-> "text", name |-> "main.tex", parentId |-> RootId,
                       items |-> <<>>]
    [] id = "i2"   -> [kind |-> "folder", name |-> "figs", parentId |-> RootId,
                       items |-> <<>>]
    [] id = "i3"   -> [kind |-> "blob", name |-> "a.png", parentId |-> RootId,
                       items |-> <<>>]

\* the segment lists left by uri.path.split('/').slice(1)
Paths == {<<>>, <<"main.tex">>, <<"figs">>, <<"a.png">>, <<"gone">>,
          <<"main.tex", "x">>}

TextPath == <<"main.tex">>

\* project.itemIdAt: from the root, each segment names a child of the current
\* folder; no child of that name, or a current item that is no folder: none
RECURSIVE ResolveFrom(_, _)
ResolveFrom(cur, parts) ==
  IF parts = <<>> THEN cur
  ELSE IF Item(cur).kind # "folder" THEN NoItem
  ELSE LET hits == {k \in 1..Len(Item(cur).items) :
                      Item(Item(cur).items[k]).name = Head(parts)} IN
       IF hits = {} THEN NoItem
       ELSE LET first == CHOOSE k \in hits : \A j \in hits : k <= j IN
            ResolveFrom(Item(cur).items[first], Tail(parts))

itemIdAt(parts) == ResolveFrom(RootId, parts)

\* --------------------------------------------------------- the read surface
VARIABLES workspace, text, lastOp

NoOp == [op |-> "none", path |-> <<>>, ready |-> FALSE, err |-> "none",
         type |-> "none", size |-> 0, entries |-> <<>>, data |-> <<>>]

Threw(op, path, e) ==
  [NoOp EXCEPT !.op = op, !.path = path, !.ready = workspace, !.err = e]

FileTypeOf(id) ==
  IF Item(id).kind = "folder" THEN "Directory"
  ELSE IF Item(id).kind = "text" THEN "File"
  ELSE "Unknown"

\* the outcome of stat(uri)
StatResult(path) ==
  IF ~workspace THEN Threw("stat", path, "Unavailable")
  ELSE LET itemId == itemIdAt(path) IN
    IF itemId = NoItem THEN Threw("stat", path, "FileNotFound")
    ELSE IF Item(itemId).kind = "folder"
      THEN [NoOp EXCEPT !.op = "stat", !.path = path, !.ready = TRUE,
                        !.type = "Directory", !.size = Len(Item(itemId).items)]
    ELSE IF Item(itemId).kind = "text"
      THEN [NoOp EXCEPT !.op = "stat", !.path = path, !.ready = TRUE,
                        !.type = "File", !.size = Len(text)]
    ELSE [NoOp EXCEPT !.op = "stat", !.path = path, !.ready = TRUE,
                      !.type = "Unknown", !.size = 0]

\* a slip: readDirectory rejecting like stat and readFile before initialization
ReadDirectoryResultThrows(path) ==
  Threw("readDirectory", path, "Unavailable")

\* a slip: the listing of a folder given in the order of the names
ReadDirectoryResultSorted(path) ==
  IF ~workspace
    THEN [NoOp EXCEPT !.op = "readDirectory", !.path = path, !.ready = FALSE]
  ELSE LET itemId == itemIdAt(path) IN
    IF itemId = NoItem THEN Threw("readDirectory", path, "FileNotFound")
    ELSE IF Item(itemId).kind # "folder"
      THEN Threw("readDirectory", path, "FileNotADirectory")
    ELSE LET byName == <<"a.png", "figs", "main.tex">>
             named(n) == {k \in 1..Len(Item(itemId).items) :
                            Item(Item(itemId).items[k]).name = n}
             kept == SelectSeq(byName, LAMBDA n : named(n) # {})
         IN [NoOp EXCEPT !.op = "readDirectory", !.path = path, !.ready = TRUE,
               !.entries = [j \in 1..Len(kept) |->
                  LET id == Item(itemId).items[CHOOSE k \in named(kept[j]) : TRUE]
                  IN <<Item(id).name, FileTypeOf(id)>>]]

\* the outcome of readDirectory(uri)
ReadDirectoryResult(path) ==
  IF ~workspace
    THEN [NoOp EXCEPT !.op = "readDirectory", !.path = path, !.ready = FALSE]
  ELSE LET itemId == itemIdAt(path) IN
    IF itemId = NoItem THEN Threw("readDirectory", path, "FileNotFound")
    ELSE IF Item(itemId).kind # "folder"
      THEN Threw("readDirectory", path, "FileNotADirectory")
    ELSE [NoOp EXCEPT !.op = "readDirectory", !.path = path, !.ready = TRUE,
            !.entries = [k \in 1..Len(Item(itemId).items) |->
                           <<Item(Item(itemId).items[k]).name,
                             FileTypeOf(Item(itemId).items[k])>>]]

\* a slip: readFile without its test for a folder, which then falls to the
\* last branch
ReadFileResultUnchecked(path, hit) ==
  IF ~workspace THEN Threw("readFile", path, "Unavailable")
  ELSE LET itemId == itemIdAt(path) IN
    IF itemId = NoItem THEN Threw("readFile", path, "FileNotFound")
    ELSE IF Item(itemId).kind = "text"
      THEN [NoOp EXCEPT !.op = "readFile", !.path = path, !.ready = TRUE,
                        !.data = text]
    ELSE IF Item(itemId).kind = "blob" /\ hit
      THEN [NoOp EXCEPT !.op = "readFile", !.path = path, !.ready = TRUE,
                        !.data = <<"blob">>]
    ELSE Threw("readFile", path, "Unavailable")

\* the outcome of readFile(uri); hit: the blob fetch returned bytes
ReadFileResult(path, hit) ==
  IF ~workspace THEN Threw("readFile", path, "Unavailable")
  ELSE LET itemId == itemIdAt(path) IN
    IF itemId = NoItem THEN Threw("readFile", path, "FileNotFound")
    ELSE IF Item(itemId).kind = "folder"
      THEN Threw("readFile", path, "FileIsADirectory")
    ELSE IF Item(itemId).kind = "text"
      THEN [NoOp EXCEPT !.op = "readFile", !.path = path, !.ready = TRUE,
                        !.data = text]
    ELSE IF Item(itemId).kind = "blob"
      THEN IF hit
             THEN [NoOp EXCEPT !.op = "readFile", !.path = path, !.ready = TRUE,
                               !.data = <<"blob">>]
             ELSE Threw("readFile", path, "Unavailable")
    ELSE Threw("readFile", path, "Unavailable")

\* -------------------------------------------------------- the write surface
\* createDirectory(uri), delete(uri), rename(oldUri, newUri): refused, with or
\* without a session; rename names the new uri in its error
CreateDirectoryResult(path) == Threw("createDirectory", path, "NoPermissions")

DeleteResult(path) == Threw("delete", path, "NoPermissions")

RenameResult(oldPath, newPath) == Threw("rename", newPath, "NoPermissions")

\* writeFile(uri, content, options) returns at once
WriteFileResult(path) ==
  [NoOp EXCEPT !.op = "writeFile", !.path = path, !.ready = workspace]

\* a slip: writeFile storing the content in the text item it names
WriteFileTextStored(path, content) ==
  IF workspace /\ itemIdAt(path) = TextId THEN content ELSE text

\* the text item's text after writeFile(uri, content, options)
WriteFileText(path, content) == text

\* ------------------------------------------------- the host editor's buffer
\* The host keeps a document as lines: \n, \r\n and a lone \r end a line, and
\* a position names a line and a column of it.  vscode.Range / vscode.Position
\* values are interpreted by the host against these lines.

\* character k (1-based) ends a line
IsLineEnd(doc, k) ==
  \/ doc[k] = LF
  \/ doc[k] = CR /\ ~(k < Len(doc) /\ doc[k + 1] = LF)

LineStarts(doc) == {0} \cup {k \in 1..Len(doc) : IsLineEnd(doc, k)}

DocLineCount(doc) == Cardinality(LineStarts(doc))

DocLineStart(doc, l) ==
  CHOOSE s \in LineStarts(doc) : Cardinality({x \in LineStarts(doc) : x < s}) = l

\* the offset just after the last character of line l that is no terminator
DocLineEnd(doc, l) ==
  IF l + 1 >= DocLineCount(doc) THEN Len(doc)
  ELSE LET ns == DocLineStart(doc, l + 1) IN
       IF doc[ns] = LF /\ ns >= 2 /\ doc[ns - 1] = CR THEN ns - 2 ELSE ns - 1

\* The host keeps one line ending per document, \n or \r\n, and brings what
\* it loads and what is typed to it: a buffer never holds a lone \r, nor both
\* kinds of ending.
UniformEol(doc) ==
  \/ \A k \in 1..Len(doc) : doc[k] # CR
  \/ /\ \A k \in 1..Len(doc) : doc[k] = CR => (k < Len(doc) /\ doc[k + 1] = LF)
     /\ \A k \in 1..Len(doc) : doc[k] = LF => (k > 1 /\ doc[k - 1] = CR)

\* the offsets a cursor can be at: not between the \r and the \n of a pair
DocOffsets(doc) == {o \in 0..Len(doc) : ~MidCRLF(doc, o)}

\* the host's validation of a position: a line past the end is the end of the
\* document, a column past the end of its line is the end of the line
DocOffsetAt(doc, pos) ==
  IF pos.line >= DocLineCount(doc) THEN Len(doc)
  ELSE Min(DocLineStart(doc, pos.line) + pos.character, DocLineEnd(doc, pos.line))

DocPositionAt(doc, o) ==
  LET l == Cardinality({s \in LineStarts(doc) : s <= o}) - 1 IN
    Pos(l, o - DocLineStart(doc, l))

\* An edit: replace the range [start, end) by text.
EditOf(start, end, t) == [start |-> start, end |-> end, text |-> t]

\* the texts of the edits edits[k..] that start at offset o, in order
RECURSIVE InsertedAt(_, _, _, _)
InsertedAt(doc, edits, o, k) ==
  IF k > Len(edits) THEN <<>>
  ELSE (IF DocOffsetAt(doc, edits[k].start) = o THEN edits[k].text ELSE <<>>)
         \o InsertedAt(doc, edits, o, k + 1)

\* The document after a set of edits whose ranges are all against the document
\* before them: every range is validated, its characters are dropped and its
\* text is put at its start (edits at one offset keep their order).
RECURSIVE ApplyFrom(_, _, _)
ApplyFrom(doc, edits, o) ==
  LET gone == \E k \in 1..Len(edits) :
                /\ DocOffsetAt(doc, edits[k].start) <= o
                /\ o < DocOffsetAt(doc, edits[k].end)
      ins == InsertedAt(doc, edits, o, 1)
  IN IF o >= Len(doc) THEN ins
     ELSE ins \o (IF gone THEN <<>> ELSE <<doc[o + 1]>>) \o ApplyFrom(doc, edits, o + 1)

ApplyEdits(doc, edits) == ApplyFrom(doc, edits, 0)

\* the edits that change the document
Effective(doc, edits) ==
  SelectSeq(edits, LAMBDA ed :
    \/ ed.text # <<>>
    \/ DocOffsetAt(doc, ed.start) < DocOffsetAt(doc, ed.end))

\* The content changes the host reports for a set of edits: the validated
\* ranges as positions of the document before the edits, last range first.
RECURSIVE Descending(_, _)
Descending(doc, edits) ==
  IF edits = <<>> THEN <<>>
  ELSE LET key(k) == DocOffsetAt(doc, edits[k].start)
           top == CHOOSE k \in 1..Len(edits) :
                    \A j \in 1..Len(edits) :
                      key(j) < key(k) \/ (key(j) = key(k) /\ j <= k)
           rest == [j \in 1..(Len(edits) - 1) |->
                      IF j < top THEN edits[j] ELSE edits[j + 1]]
       IN <<EditOf(DocPositionAt(doc, DocOffsetAt(doc, edits[top].start)),
                   DocPositionAt(doc, DocOffsetAt(doc, edits[top].end)),
                   edits[top].text)>> \o Descending(doc, rest)

ContentChanges(doc, edits) == Descending(doc, Effective(doc, edits))


\* ------------------------------------------------- replicated text and deltas
This == "this"
Peer == "peer"

Retain(n) == [kind |-> "retain", n |-> n, s |-> <<>>]
Delete(n) == [kind |-> "delete", n |-> n, s |-> <<>>]
Insert(s) == [kind |-> "insert", n |-> 0, s |-> s]

\* longest delta of a remote transaction, in segments
MaxSegs == 2

Segments ==
  {Retain(n) : n \in 1..MaxLen} \cup {Delete(n) : n \in 1..MaxLen}
    \cup {Insert(s) : s \in EngTextsOfLen(1)}

RECURSIVE SegSeqs(_)
SegSeqs(n) ==
  IF n = 0 THEN {<<>>}
  ELSE SegSeqs(n - 1) \cup
       {Append(d, g) : d \in {x \in SegSeqs(n - 1) : Len(x) = n - 1}, g \in Segments}

RECURSIVE Consumed(_)
Consumed(delta) ==
  IF delta = <<>> THEN 0 ELSE Head(delta).n + Consumed(Tail(delta))

\* a delta the replication library reports against the prior text p: no two
\* neighbouring segments of one kind, no trailing retain, within the text
ValidDelta(p, delta) ==
  /\ delta # <<>>
  /\ Consumed(delta) <= Len(p)
  /\ delta[Len(delta)].kind # "retain"
  /\ \A k \in 1..(Len(delta) - 1) : delta[k].kind # delta[k + 1].kind

Deltas(p) == {d \in SegSeqs(MaxSegs) : ValidDelta(p, d)}

Drop(t, n) == SubSeq(t, n + 1, Len(t))
Take(t, n) == SubSeq(t, 1, n)

\* the text a delta makes of the prior text p
RECURSIVE ApplyDelta(_, _)
ApplyDelta(p, delta) ==
  IF delta = <<>> THEN p
  ELSE LET g == Head(delta) IN
    CASE g.kind = "retain" -> Take(p, g.n) \o ApplyDelta(Drop(p, g.n), Tail(delta))
      [] g.kind = "delete" -> ApplyDelta(Drop(p, g.n), Tail(delta))
      [] g.kind = "insert" -> g.s \o ApplyDelta(p, Tail(delta))

RECURSIVE CommonPrefix(_, _)
CommonPrefix(p, q) ==
  IF p = <<>> \/ q = <<>> \/ Head(p) # Head(q) THEN 0
  ELSE 1 + CommonPrefix(Tail(p), Tail(q))

\* the delta of a transaction that turned p into q
DiffDelta(p, q) ==
  LET n == CommonPrefix(p, q) IN
    (IF n > 0 THEN <<Retain(n)>> ELSE <<>>)
      \o (IF Len(p) > n THEN <<Delete(Len(p) - n)>> ELSE <<>>)
      \o (IF Len(q) > n THEN <<Insert(Drop(q, n))>> ELSE <<>>)

\* ------------------------------------------------------------- the engine
VARIABLES buffer, editorOpen, disableLocalUpdates, handlers, editReqs,
          hostQueue, docVer, extVer, nUser, lastLocal, batch, life

treeVars == <<workspace, text>>
engVars == <<buffer, editorOpen, disableLocalUpdates, handlers, editReqs,
             hostQueue, docVer, extVer, nUser, lastLocal, batch, life>>
vars == <<calcText, calcOut, lastOp, workspace, text, buffer, editorOpen,
          disableLocalUpdates, handlers, editReqs, hostQueue, docVer, extVer,
          nUser, lastLocal, batch, life>>

\* the edit callback: the builder calls made for a delta, with the running
\* position, against currentText
RECURSIVE BuildEdits(_, _, _)
BuildEdits(currentText, delta, position) ==
  IF delta = <<>> THEN <<>>
  ELSE LET g == Head(delta) IN
    IF g.kind = "retain"
      THEN BuildEdits(currentText, Tail(delta), position + g.n)
    ELSE IF g.kind = "delete"
      THEN <<EditOf(indexToLineAndCharacter(currentText, position),
                    indexToLineAndCharacter(currentText, position + g.n),
                    <<>>)>>
             \o BuildEdits(currentText, Tail(delta), position)
    ELSE <<EditOf(indexToLineAndCharacter(currentText, position),
                  indexToLineAndCharacter(currentText, position),
                  g.s)>>
           \o BuildEdits(currentText, Tail(delta), position + Len(g.s))

\* The host refuses an edit with overlapping ranges: the ranges are sorted by
\* end, then start (a stable sort), and no range may start before the end of
\* the one before it.
RangeLess(a, b) ==
  \/ PosBefore(a.end, b.end)
  \/ a.end = b.end /\ PosBefore(a.start, b.start)

RECURSIVE SortRanges(_)
SortRanges(edits) ==
  IF edits = <<>> THEN <<>>
  ELSE LET low == CHOOSE k \in 1..Len(edits) :
                    \A j \in 1..Len(edits) :
                      /\ ~RangeLess(edits[j], edits[k])
                      /\ (j < k => RangeLess(edits[j], edits[k])
                                     \/ RangeLess(edits[k], edits[j]))
           rest == [j \in 1..(Len(edits) - 1) |->
                      IF j < low THEN edits[j] ELSE edits[j + 1]]
       IN <<edits[low]>> \o SortRanges(rest)

Overlapping(edits) ==
  LET sorted == SortRanges(edits) IN
    \E k \in 1..(Len(sorted) - 1) : PosBefore(sorted[k + 1].start, sorted[k].end)


\* what the last run of the onDidChangeTextDocument listener met
NoLocal == [kind |-> "none", flag |-> FALSE, changes |-> 0, transacted |-> FALSE,
            saved |-> FALSE]

ChangeMsg(changes, echo, pre, post) ==
  [type |-> "change", h |-> 0, ok |-> "none", changes |-> changes, echo |-> echo,
   pre |-> pre, post |-> post]

ReplyMsg(h, ok) ==
  [type |-> "reply", h |-> h, ok |-> ok, changes |-> <<>>, echo |-> FALSE,
   pre |-> <<>>, post |-> <<>>]

\* an observeDeep handler in flight: where it stands, the text it read from the
\* item, and the transaction it answers (the text before and after it)
HandlerRec(origin, pc, pre, post, currentText) ==
  [origin |-> origin, pc |-> pc, pre |-> pre, post |-> post,
   currentText |-> currentText]

Finished(origin, pc) == HandlerRec(origin, pc, <<>>, <<>>, <<>>)

Awaiting == {k \in 1..Len(handlers) : handlers[k].pc = "await"}

NRemote == Cardinality({k \in 1..Len(handlers) : handlers[k].origin = Peer})

\* a slip: the origin test left out of the observer
OriginIsSelfNever(origin) == FALSE

\* transact.origin === this
OriginIsSelf(origin) == origin = This

\* The observeDeep handler for one text event, run when the transaction that
\* turned pre into now ends, up to its first await: nothing for an own
\* transaction; without a visible editor the await ends at once and the flag
\* is cleared; otherwise the flag is set, the edit is built against the text
\* read from the item and sent to the host, or refused for overlapping ranges,
\* which ends the handler with the flag set.
ObserveDeep(origin, pre, delta, now) ==
  IF OriginIsSelf(origin)
    THEN UNCHANGED <<disableLocalUpdates, handlers, editReqs>>
  ELSE IF editorOpen # "open"
    THEN /\ disableLocalUpdates' = FALSE
         /\ handlers' = Append(handlers, Finished(origin, "done"))
         /\ UNCHANGED editReqs
  ELSE LET currentText == now
           edits == BuildEdits(currentText, delta, 0)
       IN IF Overlapping(edits)
            THEN /\ disableLocalUpdates' = TRUE
                 /\ handlers' = Append(handlers, Finished(origin, "threw"))
                 /\ UNCHANGED editReqs
            ELSE /\ disableLocalUpdates' = TRUE
                 /\ handlers' = Append(handlers,
                      HandlerRec(origin, "await", pre, ApplyDelta(pre, delta),
                                 currentText))
                 /\ editReqs' = Append(editReqs,
                      [h |-> Len(handlers) + 1, edits |-> edits, ver |-> extVer])

\* The body of the transaction of the local path: every content change in
\* order, its range resolved against the text as it is at that change.
RECURSIVE TransactChanges(_, _)
TransactChanges(t, changes) ==
  IF changes = <<>> THEN t
  ELSE LET change == Head(changes)
           currentText == t
           startIndex == lineAndCharacterToIndex(currentText, change.start)
           endIndex == lineAndCharacterToIndex(currentText, change.end)
           cut == IF endIndex > startIndex
                    THEN Take(currentText, startIndex) \o Drop(currentText, endIndex)
                    ELSE currentText
           put == IF change.text # <<>>
                    THEN Take(cut, startIndex) \o change.text \o Drop(cut, startIndex)
                    ELSE cut
       IN TransactChanges(put, Tail(changes))

\* a slip: the echo-suppression flag not consulted
LocalUpdatesEnabledAlways == TRUE

\* !this.disableLocalUpdates
LocalUpdatesEnabled == ~disableLocalUpdates

\* ------------------------------------------- batches of notifications
\* most keys of a root-level notification
MaxKeys == 2
\* number of remote batches of a behaviour
MaxBatch == 2

\* project.getFullPath: the names from the root down to the item
RECURSIVE getFullPath(_)
getFullPath(id) ==
  IF id = RootId \/ Item(id).parentId = NoItem THEN <<>>
  ELSE Append(getFullPath(Item(id).parentId), Item(id).name)

Created(path) == [type |-> "Created", path |-> path]
Changed(path) == [type |-> "Changed", path |-> path]

\* The events of one observeDeep call.  kind: "root" for an event of the map
\* of items itself (evt.path is empty; keys: the changed keys and their
\* actions), "map" for a field of an item, "array" for a folder's item list,
\* "text" for an item's text (delta: its change).
RootEvt(keys) == [kind |-> "root", item |-> NoItem, keys |-> keys, delta |-> <<>>]
ItemEvt(kind, id, delta) == [kind |-> kind, item |-> id, keys |-> <<>>, delta |-> delta]

\* the action of a key: the handler tells add from every other action and no
\* other actions apart
KeyActions == {"add", "delete"}

\* the items a root-level notification is about: the folder and the blob
KeyIds == {"i2", "i3"}

Key(id, action) == [id |-> id, action |-> action]

RECURSIVE KeySeqs(_)
KeySeqs(n) ==
  IF n = 0 THEN {<<>>}
  ELSE KeySeqs(n - 1) \cup
       {Append(ks, Key(id, a)) :
          ks \in {x \in KeySeqs(n - 1) : Len(x) = n - 1},
          id \in KeyIds, a \in KeyActions}

\* a map reports each of its keys once
RootEvts ==
  {RootEvt(ks) : ks \in {x \in KeySeqs(MaxKeys) :
     /\ x # <<>>
     /\ \A j \in 1..Len(x), k \in 1..Len(x) : x[j].id = x[k].id => j = k}}

\* the events of items: a field of the blob, the folder's list, the text
ItemEvts(t) ==
  {ItemEvt("map", "i3", <<>>), ItemEvt("array", "i2", <<>>)}
    \cup {ItemEvt("text", TextId, d) :
            d \in {x \in Deltas(t) : Len(ApplyDelta(t, x)) <= MaxLen}}

\* evt.path.length
PathLength(evt) ==
  CASE evt.kind = "root" -> 0
    [] evt.kind = "map" -> 1
    [] OTHER -> 2

\* The batches a transaction on a tree whose text is t can report: one event
\* per changed type, those nearer the root first.
Batches(t) ==
  {<<e>> : e \in RootEvts \cup ItemEvts(t)}
    \cup {b \in {<<e, f>> : e \in RootEvts \cup ItemEvts(t), f \in ItemEvts(t)} :
            /\ b[1] # b[2]
            /\ b[1].kind # "text"
            /\ PathLength(b[1]) <= PathLength(b[2])}

\* the text a batch's transaction makes of t
RECURSIVE TextAfter(_, _)
TextAfter(t, events) ==
  IF events = <<>> THEN t
  ELSE IF Head(events).kind = "text"
    THEN TextAfter(ApplyDelta(t, Head(events).delta), Tail(events))
    ELSE TextAfter(t, Tail(events))

\* the root branch, for the keys of one event: what is pushed to toFire
RECURSIVE CreatedOf(_)
CreatedOf(keys) ==
  IF keys = <<>> THEN <<>>
  ELSE IF Head(keys).action # "add" THEN CreatedOf(Tail(keys))
  ELSE <<Created(getFullPath(Head(keys).id))>> \o CreatedOf(Tail(keys))

\* the root branch, for the keys of one event: what is logged as unexpected
UnexpectedOf(keys) == SelectSeq(keys, LAMBDA k : k.action # "add")

\* an observeDeep call on a batch: where it stands, the events of the batch,
\* those it has not reached, its toFire list and what it has logged
NoBatch == [n |-> 0, pc |-> "idle", events |-> <<>>, rest |-> <<>>,
            toFire |-> <<>>, logged |-> <<>>]

\* The loop over the events from the first await or the start, up to the next
\* await or the end: flag is disableLocalUpdates as the loop leaves it, edits
\* the edit it awaits.
RECURSIVE RunEvents(_, _, _, _, _)
RunEvents(events, toFire, logged, now, flag) ==
  IF events = <<>>
    THEN [pc |-> "done", rest |-> <<>>, toFire |-> toFire, logged |-> logged,
          flag |-> flag, edits |-> <<>>]
  ELSE LET evt == Head(events) IN
    IF evt.kind = "root"
      THEN RunEvents(Tail(events), toFire \o CreatedOf(evt.keys),
                     logged \o UnexpectedOf(evt.keys), now, flag)
    ELSE IF evt.kind # "text"
      THEN RunEvents(Tail(events), Append(toFire, Changed(getFullPath(evt.item))),
                     logged, now, flag)
    ELSE IF editorOpen # "open"
      THEN RunEvents(Tail(events), Append(toFire, Changed(getFullPath(evt.item))),
                     logged, now, FALSE)
    ELSE LET edits == BuildEdits(now, evt.delta, 0) IN
      [pc |-> IF Overlapping(edits) THEN "threw" ELSE "await",
       rest |-> events, toFire |-> toFire, logged |-> logged, flag |-> TRUE,
       edits |-> edits]

\* ------------------------------------------------ sessions: init and reset
\* number of initialize() calls of a behaviour
MaxInit == 2

\* The provider's sessions.  initialized: the flag of the commands; calls: the
\* initialize() calls made, each with its own document and workspace, named by
\* its index, and where each stands ("connecting": awaiting the face and the
\* registrations, "creating": rootDoc assigned, awaiting Workspace.create,
\* "done"); rootDoc, ws: the document and the workspace the provider holds
\* (0: undefined); the documents and workspaces destroyed; the number of
\* onDidChangeTextDocument listeners registered, none of which is disposed.
NoLife == [initialized |-> FALSE, calls |-> <<>>, rootDoc |-> 0, ws |-> 0,
           destroyedDocs |-> {}, destroyedWs |-> {}, listeners |-> 0]

\* one initialize() call has run to its end and nothing else has happened
OneSession == [initialized |-> TRUE, calls |-> <<"done">>, rootDoc |-> 1, ws |-> 1,
               destroyedDocs |-> {}, destroyedWs |-> {}, listeners |-> 1]

\* ------------------------------------------------------------------ actions
\* initialize(): the session is created and the document loaded
Initialize ==
  /\ ~workspace
  /\ workspace' = TRUE
  /\ text' \in EngTextsUpTo(MaxLen)
  /\ life' = OneSession
  /\ UNCHANGED <<buffer, editorOpen, disableLocalUpdates, handlers, editReqs,
                 hostQueue, docVer, extVer, nUser, lastLocal, batch, lastOp,
                 calcVars>>

\* the user opens the text item: the host reads it into a buffer and shows it
OpenEditor ==
  /\ workspace
  /\ editorOpen = "never"
  /\ editorOpen' = "open"
  /\ buffer' = text
  /\ UNCHANGED <<treeVars, disableLocalUpdates, handlers, editReqs, hostQueue,
                 docVer, extVer, nUser, lastLocal, lastOp, calcVars, batch, life>>

\* the user closes the editor
CloseEditor ==
  /\ editorOpen = "open"
  /\ editorOpen' = "closed"
  /\ UNCHANGED <<treeVars, buffer, disableLocalUpdates, handlers, editReqs,
                 hostQueue, docVer, extVer, nUser, lastLocal, lastOp, calcVars, batch, life>>

\* a transaction of a remote peer on the text item, and the observer's run
RemoteTransact ==
  /\ workspace
  /\ NRemote < MaxRemote
  /\ \E delta \in Deltas(text) :
       /\ Len(ApplyDelta(text, delta)) <= MaxLen
       /\ text' = ApplyDelta(text, delta)
       /\ ObserveDeep(Peer, text, delta, text')
  /\ UNCHANGED <<workspace, buffer, editorOpen, hostQueue, docVer, extVer, nUser,
                 lastLocal, lastOp, calcVars, batch, life>>

\* The host takes an edit request.  It rejects one for an editor that is
\* closed, declines one made against an older version of the document, and
\* else applies it as one edit; the change event goes to the extension before
\* the reply.
HostApplyEdit ==
  /\ editReqs # <<>>
  /\ LET req == Head(editReqs)
         changes == ContentChanges(buffer, req.edits)
     IN /\ editReqs' = Tail(editReqs)
        /\ IF editorOpen # "open"
             THEN /\ hostQueue' = Append(hostQueue, ReplyMsg(req.h, "rejected"))
                  /\ UNCHANGED <<buffer, docVer>>
           ELSE IF req.ver # docVer
             THEN /\ hostQueue' = Append(hostQueue, ReplyMsg(req.h, "declined"))
                  /\ UNCHANGED <<buffer, docVer>>
           ELSE /\ buffer' = ApplyEdits(buffer, req.edits)
                /\ IF changes = <<>>
                     THEN /\ hostQueue' = Append(hostQueue, ReplyMsg(req.h, "applied"))
                          /\ UNCHANGED docVer
                     ELSE /\ hostQueue' = hostQueue \o
                               <<ChangeMsg(changes, TRUE, buffer, buffer'),
                                 ReplyMsg(req.h, "applied")>>
                          /\ docVer' = docVer + 1
  /\ UNCHANGED <<treeVars, editorOpen, disableLocalUpdates, handlers, extVer,
                 nUser, lastLocal, lastOp, calcVars, batch, life>>

\* one replacement a user makes: a range between two cursor offsets of the
\* buffer and the text typed over it
UserChanges(doc, typed) ==
  {c \in {EditOf(DocPositionAt(doc, s), DocPositionAt(doc, e), t) :
            s \in DocOffsets(doc), e \in DocOffsets(doc), t \in typed} :
     /\ DocOffsetAt(doc, c.start) <= DocOffsetAt(doc, c.end)
     /\ (c.text # <<>> \/ c.start # c.end)}

\* an edit with one cursor, or with two: the ranges apart, in document order
UserEdits(doc, typed, cursors) ==
  {<<c>> : c \in UserChanges(doc, typed)}
    \cup
  {e \in IF cursors < 2 THEN {} ELSE {<<c, d>> : c \in UserChanges(doc, typed), d \in UserChanges(doc, typed)} :
     /\ DocOffsetAt(doc, e[1].end) <= DocOffsetAt(doc, e[2].start)
     /\ DocOffsetAt(doc, e[1].start) < DocOffsetAt(doc, e[2].start)}

\* the user edits the buffer; the host reports the content changes, ranges
\* against the buffer before the edit, last range first
UserEditWith(typed, longest, cursors, most) ==
  /\ editorOpen = "open"
  /\ nUser < most
  /\ \E edits \in UserEdits(buffer, typed, cursors) :
       /\ Len(ApplyEdits(buffer, edits)) <= longest
       /\ UniformEol(ApplyEdits(buffer, edits))
       /\ buffer' = ApplyEdits(buffer, edits)
       /\ hostQueue' = Append(hostQueue,
            ChangeMsg(ContentChanges(buffer, edits), FALSE, buffer, buffer'))
  /\ docVer' = docVer + 1
  /\ nUser' = nUser + 1
  /\ UNCHANGED <<treeVars, editorOpen, disableLocalUpdates, handlers, editReqs,
                 extVer, lastLocal, lastOp, calcVars, batch, life>>

\* in the engine specification: one cursor, the engine's characters
UserEdit == UserEditWith(EngTextsUpTo(1), MaxLen, 1, MaxUser)

\* the onDidChangeTextDocument listener
OnDidChangeTextDocument ==
  /\ hostQueue # <<>>
  /\ Head(hostQueue).type = "change"
  /\ LET evt == Head(hostQueue)
         itemId == itemIdAt(TextPath)
         go == LocalUpdatesEnabled /\ itemId # NoItem /\ Item(itemId).kind = "text"
     IN /\ hostQueue' = Tail(hostQueue)
        /\ extVer' = extVer + 1
        /\ IF go
             THEN /\ text' = TransactChanges(text, evt.changes)
                  /\ ObserveDeep(This, text, DiffDelta(text, text'), text')
             ELSE UNCHANGED <<text, disableLocalUpdates, handlers, editReqs>>
        /\ lastLocal' = [kind |-> IF evt.echo THEN "echo" ELSE "user",
                         flag |-> disableLocalUpdates,
                         changes |-> Len(evt.changes),
                         transacted |-> go, saved |-> TRUE]
  /\ UNCHANGED <<workspace, buffer, editorOpen, docVer, nUser, lastOp, calcVars,
                 batch, life>>

\* the awaited edit settles: a rejection ends the observeDeep handler there,
\* else it clears the flag and runs to its end
EditSettled ==
  /\ hostQueue # <<>>
  /\ Head(hostQueue).type = "reply"
  /\ LET h == Head(hostQueue).h
         ok == Head(hostQueue).ok
     IN /\ hostQueue' = Tail(hostQueue)
        /\ IF ok = "rejected"
             THEN /\ handlers' = [handlers EXCEPT ![h] = Finished(handlers[h].origin, "threw")]
                  /\ UNCHANGED disableLocalUpdates
             ELSE /\ disableLocalUpdates' = FALSE
                  /\ handlers' = [handlers EXCEPT ![h] = Finished(handlers[h].origin, "done")]
  /\ UNCHANGED <<treeVars, buffer, editorOpen, editReqs, docVer, extVer, nUser,
                 lastLocal, lastOp, calcVars, batch, life>>

\* a transaction of a remote peer that reports a batch of events, and the
\* observer's run on it up to its first await
RemoteBatch ==
  /\ workspace
  /\ batch.pc # "await"
  /\ batch.n < MaxBatch
  /\ \E events \in Batches(text) :
       LET now == TextAfter(text, events)
           r == RunEvents(events, <<>>, <<>>, now, disableLocalUpdates)
       IN /\ text' = now
          /\ IF OriginIsSelf(Peer)
               THEN UNCHANGED <<batch, disableLocalUpdates, editReqs>>
               ELSE /\ batch' = [n |-> batch.n + 1, pc |-> r.pc, events |-> events,
                                 rest |-> r.rest, toFire |-> r.toFire,
                                 logged |-> r.logged]
                    /\ disableLocalUpdates' = r.flag
                    /\ editReqs' = IF r.pc = "await"
                         THEN Append(editReqs, [h |-> 0, edits |-> r.edits, ver |-> extVer])
                         ELSE editReqs
  /\ UNCHANGED <<workspace, buffer, editorOpen, handlers, hostQueue, docVer, extVer,
                 nUser, lastLocal, lastOp, calcVars, life>>

\* the edit a batch awaits settles: a rejection ends the call there, nothing
\* fired; else the flag is cleared, the text event's Changed is pushed and
\* the loop goes on to the end, where toFire is fired
BatchSettled ==
  /\ hostQueue # <<>>
  /\ Head(hostQueue).type = "reply"
  /\ batch.pc = "await"
  /\ hostQueue' = Tail(hostQueue)
  /\ IF Head(hostQueue).ok = "rejected"
       THEN /\ batch' = [batch EXCEPT !.pc = "threw"]
            /\ UNCHANGED <<disableLocalUpdates, editReqs>>
       ELSE LET r == RunEvents(Tail(batch.rest),
                       Append(batch.toFire, Changed(getFullPath(Head(batch.rest).item))),
                       batch.logged, text, FALSE)
            IN /\ batch' = [batch EXCEPT !.pc = r.pc, !.rest = r.rest,
                                         !.toFire = r.toFire, !.logged = r.logged]
               /\ disableLocalUpdates' = r.flag
               /\ editReqs' = IF r.pc = "await"
                    THEN Append(editReqs, [h |-> 0, edits |-> r.edits, ver |-> extVer])
                    ELSE editReqs
  /\ UNCHANGED <<treeVars, buffer, editorOpen, handlers, docVer, extVer, nUser,
                 lastLocal, lastOp, calcVars, life>>

\* ---------------------------------------------- the commands and sessions
\* this.rootDoc holds the text item: it is the document of a call that has
\* loaded it
ItemReady ==
  /\ life.rootDoc # 0
  /\ life.calls[life.rootDoc] = "done"

\* the observeDeep observers that remote changes reach: registered, on a
\* document and with a workspace that are not destroyed
ActiveObservers ==
  {c \in 1..Len(life.calls) :
     /\ life.calls[c] = "done"
     /\ c \notin life.destroyedDocs
     /\ c \notin life.destroyedWs}

\* ndnws.init: refused when the flag is set; else the flag is set and
\* initialize() is called, which returns at once when a workspace is held
CmdInit ==
  /\ ~life.initialized
  /\ Len(life.calls) < MaxInit
  /\ life' = [life EXCEPT !.initialized = TRUE,
                          !.calls = IF workspace THEN @ ELSE Append(@, "connecting")]
  /\ UNCHANGED <<treeVars, buffer, editorOpen, disableLocalUpdates, handlers,
                 editReqs, hostQueue, docVer, extVer, nUser, lastLocal, batch,
                 lastOp, calcVars>>

\* initialize(), after its first awaits: a new, empty document is assigned to
\* this.rootDoc
InitializeDoc ==
  \E c \in 1..Len(life.calls) :
    /\ life.calls[c] = "connecting"
    /\ life' = [life EXCEPT !.calls[c] = "creating", !.rootDoc = c]
    /\ text' = <<>>
    /\ UNCHANGED <<workspace, buffer, editorOpen, disableLocalUpdates, handlers,
                   editReqs, hostQueue, docVer, extVer, nUser, lastLocal, batch,
                   lastOp, calcVars>>

\* initialize(), after Workspace.create: the call's document is loaded, its
\* workspace assigned to this.workspace, the observer registered on its
\* document and one more listener on the host
InitializeFinish ==
  \E c \in 1..Len(life.calls) :
    /\ life.calls[c] = "creating"
    /\ workspace' = TRUE
    /\ life' = [life EXCEPT !.calls[c] = "done", !.ws = c,
                            !.listeners = @ + 1]
    /\ IF life.rootDoc = c
         THEN text' \in EngTextsUpTo(MaxLen)
         ELSE text' = text
    /\ UNCHANGED <<buffer, editorOpen, disableLocalUpdates, handlers, editReqs,
                   hostQueue, docVer, extVer, nUser, lastLocal, batch, lastOp,
                   calcVars>>

\* ndnws.reset: refused when the flag is clear; else disconnect() destroys the
\* workspace and the document the provider holds and clears both fields, and
\* the flag is cleared
CmdReset ==
  /\ life.initialized
  /\ workspace' = FALSE
  /\ text' = <<>>
  /\ life' = [life EXCEPT
       !.initialized = FALSE,
       !.ws = 0,
       !.rootDoc = 0,
       !.destroyedWs = IF life.ws # 0 THEN @ \cup {life.ws} ELSE @,
       !.destroyedDocs = IF life.rootDoc # 0 THEN @ \cup {life.rootDoc} ELSE @]
  /\ UNCHANGED <<buffer, editorOpen, disableLocalUpdates, handlers, editReqs,
                 hostQueue, docVer, extVer, nUser, lastLocal, batch, lastOp,
                 calcVars>>

\* one listener's run on a change event, the item's text being t: with the
\* flag clear and an item in this.rootDoc the changes are transacted; without
\* a document the listener throws at rootDoc!.latex
ListenerText(t, changes) ==
  IF LocalUpdatesEnabled /\ ItemReady THEN TransactChanges(t, changes) ELSE t

RECURSIVE RunListeners(_, _, _)
RunListeners(n, t, changes) ==
  IF n = 0 THEN t
  ELSE RunListeners(n - 1, ListenerText(t, changes), changes)

\* the host delivers a change event: every registered listener runs on it,
\* one after the other
DeliverChange ==
  /\ hostQueue # <<>>
  /\ Head(hostQueue).type = "change"
  /\ hostQueue' = Tail(hostQueue)
  /\ extVer' = extVer + 1
  /\ text' = RunListeners(life.listeners, text, Head(hostQueue).changes)
  /\ lastLocal' = [kind |-> IF Head(hostQueue).echo THEN "echo" ELSE "user",
                   flag |-> disableLocalUpdates,
                   changes |-> Len(Head(hostQueue).changes),
                   transacted |-> life.listeners > 0 /\ LocalUpdatesEnabled /\ ItemReady,
                   saved |-> life.listeners > 0 /\ (ItemReady \/ ~LocalUpdatesEnabled)]
  /\ UNCHANGED <<workspace, buffer, editorOpen, disableLocalUpdates, handlers,
                 editReqs, docVer, nUser, batch, life, lastOp, calcVars>>

EngIdle ==
  /\ buffer = <<>>
  /\ editorOpen = "never"
  /\ disableLocalUpdates = FALSE
  /\ handlers = <<>>
  /\ editReqs = <<>>
  /\ hostQueue = <<>>
  /\ docVer = 1
  /\ extVer = 1
  /\ nUser = 0
  /\ lastLocal = NoLocal
  /\ batch = NoBatch
  /\ life = NoLife

Init ==
  /\ workspace = FALSE
  /\ text = <<>>
  /\ lastOp = NoOp
  /\ EngIdle
  /\ CalcIdle

Next ==
  \/ Initialize
  \/ OpenEditor
  \/ CloseEditor
  \/ RemoteTransact
  \/ HostApplyEdit
  \/ UserEdit
  \/ OnDidChangeTextDocument
  \/ EditSettled

Spec == Init /\ [][Next]_vars


\* ------------------------------------------- the read surface, on its own
Stat ==
  \E path \in Paths :
    /\ lastOp' = StatResult(path)
    /\ UNCHANGED <<treeVars, engVars, calcVars>>

ReadDirectory ==
  \E path \in Paths :
    /\ lastOp' = ReadDirectoryResult(path)
    /\ UNCHANGED <<treeVars, engVars, calcVars>>

ReadFile ==
  \E path \in Paths, hit \in BOOLEAN :
    /\ lastOp' = ReadFileResult(path, hit)
    /\ UNCHANGED <<treeVars, engVars, calcVars>>

CreateDirectory ==
  \E path \in Paths :
    /\ lastOp' = CreateDirectoryResult(path)
    /\ UNCHANGED <<treeVars, engVars, calcVars>>

WriteFile ==
  \E path \in Paths, content \in EngTextsUpTo(1) :
    /\ lastOp' = WriteFileResult(path)
    /\ text' = WriteFileText(path, content)
    /\ UNCHANGED <<workspace, engVars, calcVars>>

DeleteFile ==
  \E path \in Paths :
    /\ lastOp' = DeleteResult(path)
    /\ UNCHANGED <<treeVars, engVars, calcVars>>

Rename ==
  \E oldPath \in Paths, newPath \in Paths :
    /\ lastOp' = RenameResult(oldPath, newPath)
    /\ UNCHANGED <<treeVars, engVars, calcVars>>

\* the provider's file operations on a session that remote peers write to
NextFs ==
  \/ Initialize
  \/ Stat
  \/ ReadDirectory
  \/ ReadFile
  \/ CreateDirectory
  \/ WriteFile
  \/ DeleteFile
  \/ Rename
  \/ RemoteTransact

SpecFs == Init /\ [][NextFs]_vars

\* ------------------------------------------ the position translator, alone
\* toPosition(text, i) for an offset, also one past the end of the text
CalcToPosition ==
  \E i \in 0..(Len(calcText) + 1) :
    /\ calcOut' = [op |-> "toPosition", offset |-> i,
                   pos |-> indexToLineAndCharacter(calcText, i), back |-> 0]
    /\ UNCHANGED <<calcText, treeVars, engVars, lastOp>>

\* toOffset(text, pos) for a position, also ones the text does not have
CalcToOffset ==
  \E l \in 0..(Len(calcText) + 1), c \in 0..(Len(calcText) + 1) :
    /\ calcOut' = [op |-> "toOffset", offset |-> 0, pos |-> Pos(l, c),
                   back |-> lineAndCharacterToIndex(calcText, Pos(l, c))]
    /\ UNCHANGED <<calcText, treeVars, engVars, lastOp>>

\* toOffset(text, toPosition(text, i)) for a valid offset
CalcRoundTrip ==
  \E i \in 0..Len(calcText) :
    LET p == indexToLineAndCharacter(calcText, i) IN
      /\ calcOut' = [op |-> "roundTrip", offset |-> i, pos |-> p,
                     back |-> lineAndCharacterToIndex(calcText, p)]
      /\ UNCHANGED <<calcText, treeVars, engVars, lastOp>>

InitCalcSpec ==
  /\ workspace = FALSE
  /\ text = <<>>
  /\ lastOp = NoOp
  /\ EngIdle
  /\ InitCalc

NextCalc ==
  \/ CalcToPosition
  \/ CalcToOffset
  \/ CalcRoundTrip

SpecCalc == InitCalcSpec /\ [][NextCalc]_vars

\* ------------------------------------------------ the local path, alone
\* longest buffer of the local-path specification
MaxLocalLen == 4

\* an initialized session whose text item, of any content, is open in an
\* editor; the user edits it with up to two cursors and the listener runs
InitLocal ==
  /\ workspace = TRUE
  /\ text \in {t \in TextsUpTo(MaxLocalLen) : UniformEol(t)}
  /\ buffer = text
  /\ editorOpen = "open"
  /\ disableLocalUpdates = FALSE
  /\ handlers = <<>>
  /\ editReqs = <<>>
  /\ hostQueue = <<>>
  /\ docVer = 1
  /\ extVer = 1
  /\ nUser = 0
  /\ lastLocal = NoLocal
  /\ batch = NoBatch
  /\ life = OneSession
  /\ lastOp = NoOp
  /\ CalcIdle

\* what a user types over a range: nothing, a letter or a line ending
Typed == {<<>>, <<"a">>, <<LF>>, <<CR, LF>>}

\* in the local-path specification: one edit of the drawn buffer, with up to
\* two cursors
UserEditAny == UserEditWith(Typed, MaxLocalLen, 2, 1)

NextLocal ==
  \/ UserEditAny
  \/ OnDidChangeTextDocument

SpecLocal == InitLocal /\ [][NextLocal]_vars

\* ------------------------------------------- the observer on batches, alone
\* a session whose text item can be open in an editor, and remote peers whose
\* transactions report batches of events
NextNotify ==
  \/ Initialize
  \/ OpenEditor
  \/ CloseEditor
  \/ RemoteBatch
  \/ HostApplyEdit
  \/ OnDidChangeTextDocument
  \/ BatchSettled

SpecNotify == Init /\ [][NextNotify]_vars

\* --------------------------------------------------- the sessions, alone
\* the commands that start and end sessions, and a user who opens the text
\* item and edits it
NextLife ==
  \/ CmdInit
  \/ InitializeDoc
  \/ InitializeFinish
  \/ CmdReset
  \/ OpenEditor
  \/ UserEdit
  \/ DeliverChange

SpecLife == Init /\ [][NextLife]_vars

\* ------------------------------------------------------------------ claims
\* a step of the onDidChangeTextDocument listener
LocalStep ==
  /\ hostQueue # <<>>
  /\ Head(hostQueue).type = "change"
  /\ hostQueue' = Tail(hostQueue)

\* a step of the host that applies the edit at the head of the requests
ApplyStep ==
  /\ editReqs # <<>>
  /\ editReqs' = Tail(editReqs)
  /\ editorOpen = "open"
  /\ Head(editReqs).ver = docVer

\* C1: a transaction of the local path, tagged with the engine's own origin,
\* starts no observeDeep handler and so no buffer edit: every handler answers
\* a peer's transaction, and the buffer has been changed at most once per user
\* edit and once per remote transaction.
C1_NoEchoOfLocalEdit ==
  /\ \A k \in 1..Len(handlers) : handlers[k].origin = Peer
  /\ docVer - 1 <= nUser + NRemote

\* a user edit went through the local path into the tree and nothing is left
\* to deliver
C1_Witness ==
  /\ lastLocal.kind = "user"
  /\ lastLocal.transacted
  /\ hostQueue = <<>>
  /\ editReqs = <<>>
  /\ docVer = 2
  /\ text = buffer

\* C2: a buffer change made by the remote path applying a remote delta is
\* never translated by the local path into an operation on the tree.
C2_NoEchoOfRemoteEdit == ~(lastLocal.kind = "echo" /\ lastLocal.transacted)

\* C3: the edit built from a delta D against the prior text P, applied to a
\* buffer holding P, leaves the buffer holding D applied to P.
C3_DeltaTranslation ==
  [][(ApplyStep /\ buffer = handlers[Head(editReqs).h].pre)
       => buffer' = handlers[Head(editReqs).h].post]_vars

\* C4: the listener, run on the notification of an edit of a buffer that held
\* the item's text, leaves the item's text equal to the buffer after that
\* edit, for one and for several content changes.
C4_LocalLockstep ==
  [][(LocalStep /\ ~disableLocalUpdates /\ text = Head(hostQueue).pre)
       => text' = Head(hostQueue).post]_vars

\* a notification of two content changes was translated and the text follows
\* the buffer, which holds a \r\n pair
C4_Witness ==
  /\ lastLocal.kind = "user"
  /\ lastLocal.changes = 2
  /\ lastLocal.transacted
  /\ hostQueue = <<>>
  /\ text = buffer
  /\ \E k \in 1..(Len(text) - 1) : text[k] = CR /\ text[k + 1] = LF

\* C5: while a batch of remote notifications is awaiting its buffer edit, no
\* other batch, remote or local, starts being handled.
C5_BatchSerialization ==
  [][(LocalStep \/ Len(handlers') > Len(handlers)) => Awaiting = {}]_vars

\* C6: once no remote batch is being processed the flag is clear, whether the
\* buffer edit succeeded or failed.
C6_FlagClearedAfterBatch == Awaiting = {} => ~disableLocalUpdates

\* C7: toOffset(T, toPosition(T, i)) = i for every text T and offset i of it.
C7_RoundTrip == calcOut.op = "roundTrip" => calcOut.back = calcOut.offset

\* C7, amended: toOffset(T, toPosition(T, i)) = i for every offset i that is
\* not between the \r and the \n of a \r\n pair, and i - 1 for one that is.
C7_RoundTripOffPairs ==
  calcOut.op = "roundTrip" =>
    calcOut.back = IF MidCRLF(calcText, calcOut.offset)
                     THEN calcOut.offset - 1
                     ELSE calcOut.offset

\* a round trip at the end of a text with a letter, a \r\n pair and a lone \r
C7_Witness ==
  /\ calcOut.op = "roundTrip"
  /\ calcText = <<"a", CR, LF, CR>>
  /\ calcOut.offset = 4
  /\ calcOut.pos = Pos(2, 0)
  /\ calcOut.back = 4

\* C8: the text an observeDeep handler translates offsets against is the
\* item's text before the delta it answers.
C8_PreEditSnapshot ==
  \A k \in Awaiting : handlers[k].currentText = handlers[k].pre

C10_IgnoredEntirely ==
  lastLocal.flag => (~lastLocal.transacted /\ ~lastLocal.saved)

\* C10, amended: with the flag set the listener opens no transaction and
\* leaves the tree and the observer's state as they are, and still saves the
\* document.
C10_IgnoredButSaved ==
  [][(LocalStep /\ disableLocalUpdates)
       => /\ text' = text
          /\ handlers' = handlers
          /\ editReqs' = editReqs
          /\ disableLocalUpdates' = disableLocalUpdates
          /\ ~lastLocal'.transacted
          /\ lastLocal'.saved]_vars

\* the echo of a remote edit was met with the flag set, and the buffer had
\* changed
C10_Witness ==
  /\ lastLocal.kind = "echo"
  /\ lastLocal.flag
  /\ lastLocal.saved
  /\ text = buffer
  /\ docVer = 2

\* the line terminators among the first n characters of a text: every \n, and
\* every \r that is not immediately followed by \n
Terminators(t, n) ==
  {k \in 1..Min(n, Len(t)) :
     \/ t[k] = LF
     \/ t[k] = CR /\ ~(k < Len(t) /\ t[k + 1] = LF)}

\* C11: a \r immediately followed by \n is one line terminator in both
\* functions: the line toPosition(T, i) reports is the number of terminators
\* among the first i characters, the offset toOffset finds for a position has
\* as many terminators before it as the position's line, and
\* toPosition("a\r\nb", 3) is line 1, character 0 (the scan tells \r and \n
\* from every other character and no other characters apart: the letter a
\* stands for b).
C11_CRLFAtomicity ==
  /\ calcOut.op = "toPosition"
       => calcOut.pos.line = Cardinality(Terminators(calcText, calcOut.offset))
  /\ (calcOut.op = "toOffset" /\ calcOut.back < Len(calcText))
       => calcOut.pos.line = Cardinality(Terminators(calcText, calcOut.back))
  /\ (calcOut.op = "toPosition" /\ calcText = <<"a", CR, LF, "a">>
        /\ calcOut.offset = 3)
       => calcOut.pos = Pos(1, 0)

\* toPosition of a letter, a \r\n pair and a letter, at offset 3, was
\* computed and is line 1, character 0
C11_Witness ==
  /\ calcOut.op = "toPosition"
  /\ calcText = <<"a", CR, LF, "a">>
  /\ calcOut.offset = 3
  /\ calcOut.pos = Pos(1, 0)

\* the (line, character) of the scan when it stands at index j of a text: the
\* terminators before j, and the characters since the last of them, the \r of
\* a \r\n pair not counted
ScanAt(t, j) ==
  LET ts == Terminators(t, j)
      from == IF ts = {} THEN 0 ELSE CHOOSE k \in ts : \A x \in ts : x <= k
  IN Pos(Cardinality(ts),
         Cardinality({k \in (from + 1)..Min(j, Len(t)) :
                        ~(t[k] = CR /\ k < Len(t) /\ t[k + 1] = LF)}))

\* C12: toOffset(T, pos) is in 0..len(T): the smallest scan index at which the
\* scan's (line, character) is pos, and len(T) when there is none;
\* toPosition(T, offset) for an offset past the end is toPosition(T, len(T)).
C12_Clamping ==
  /\ calcOut.op = "toOffset" =>
       LET hits == {j \in 0..(Len(calcText) - 1) : ScanAt(calcText, j) = calcOut.pos}
       IN /\ calcOut.back \in 0..Len(calcText)
          /\ calcOut.back = IF hits = {} THEN Len(calcText)
                            ELSE CHOOSE j \in hits : \A x \in hits : j <= x
  /\ (calcOut.op = "toPosition" /\ calcOut.offset > Len(calcText))
       => calcOut.pos = ScanAt(calcText, Len(calcText))

\* toOffset was asked for a line the text does not have, and answered with
\* the length of the text
C12_Witness ==
  /\ calcOut.op = "toOffset"
  /\ calcText = <<"a", CR, LF, "a">>
  /\ calcOut.pos = Pos(3, 0)
  /\ calcOut.back = 4

WriteOps == {"createDirectory", "writeFile", "delete", "rename"}

\* C13: createDirectory, delete and rename always fail with NoPermissions and
\* writeFile returns without failing; a call of any of them leaves the tree,
\* the item's text and the engine as they were, and the text changes only in
\* a step of initialization, of the listener or of a remote transaction.
C13_WritePathFrame ==
  [][/\ lastOp'.op \in {"createDirectory", "delete", "rename"}
          => lastOp'.err = "NoPermissions"
     /\ lastOp'.op = "writeFile" => lastOp'.err = "none"
     /\ (lastOp' # lastOp /\ lastOp'.op \in WriteOps)
          => (text' = text /\ workspace' = workspace /\ engVars' = engVars)
     /\ text' # text
          => \/ ~workspace /\ workspace'
             \/ LocalStep
             \/ Len(handlers') > Len(handlers)]_vars

\* writeFile was called on the text item of a session that a remote peer has
\* written to, and the item holds the peer's text
C13_Witness ==
  /\ lastOp.op = "writeFile"
  /\ lastOp.path = TextPath
  /\ lastOp.err = "none"
  /\ workspace
  /\ NRemote = 1
  /\ text = <<"a", LF>>

ReadOps == {"stat", "readDirectory", "readFile"}

\* C14: on an initialized session stat, readDirectory and readFile of a path
\* that does not resolve fail with FileNotFound, readDirectory of an item
\* that is no folder fails with FileNotADirectory, readFile of a folder fails
\* with FileIsADirectory, readFile of a blob returns the fetched bytes or, the
\* fetch missing, fails with Unavailable; and a call of any of the three
\* leaves the tree and the engine as they were.
C14_ReadFailures ==
  [][/\ (lastOp'.op \in ReadOps /\ lastOp'.ready) =>
          LET itemId == itemIdAt(lastOp'.path) IN
            /\ itemId = NoItem => lastOp'.err = "FileNotFound"
            /\ (lastOp'.op = "readDirectory" /\ itemId # NoItem
                  /\ Item(itemId).kind # "folder")
                 => lastOp'.err = "FileNotADirectory"
            /\ (lastOp'.op = "readFile" /\ itemId # NoItem
                  /\ Item(itemId).kind = "folder")
                 => lastOp'.err = "FileIsADirectory"
            /\ (lastOp'.op = "readFile" /\ itemId # NoItem
                  /\ Item(itemId).kind = "blob")
                 => \/ lastOp'.err = "Unavailable" /\ lastOp'.data = <<>>
                    \/ lastOp'.err = "none" /\ lastOp'.data # <<>>
     /\ (lastOp' # lastOp /\ lastOp'.op \in ReadOps)
          => (text' = text /\ workspace' = workspace /\ engVars' = engVars)]_vars

\* readFile of the folder failed on a session that a remote peer has written to
C14_Witness ==
  /\ lastOp.op = "readFile"
  /\ lastOp.ready
  /\ lastOp.path = <<"figs">>
  /\ lastOp.err = "FileIsADirectory"
  /\ NRemote = 1

\* the keys of the root-level events of a batch, in order
RECURSIVE RootKeys(_)
RootKeys(events) ==
  IF events = <<>> THEN <<>>
  ELSE Head(events).keys \o RootKeys(Tail(events))

Count(seq, x) == Cardinality({k \in 1..Len(seq) : seq[k] = x})

\* the observeDeep call on the batch has ended
Ended == batch.pc \in {"done", "threw"}

\* the events the call has emitted: its toFire list once it is fired
Emitted == IF batch.pc = "done" THEN batch.toFire ELSE <<>>

\* C15: once the call on a batch from a peer has ended, every root-level key
\* whose action is add has exactly one Created event of its item's full path
\* emitted, every other key has none and is logged, and every event of the
\* batch has been reached.
C15_RootNotifications ==
  Ended =>
    /\ \A k \in 1..Len(RootKeys(batch.events)) :
         LET key == RootKeys(batch.events)[k] IN
           IF key.action = "add"
             THEN Count(Emitted, Created(getFullPath(key.id))) = 1
             ELSE /\ Count(Emitted, Created(getFullPath(key.id))) = 0
                  /\ Count(batch.logged, key) = 1
    /\ RootKeys(batch.events) # <<>> => batch.rest = <<>>

\* the events of a batch that address an item
ItemEvents(events) == SelectSeq(events, LAMBDA e : e.kind # "root")

\* C16: once the call on a batch from a peer has ended, every event of the
\* batch that addresses an item, a structural change or a text delta, has a
\* Changed event of the item's path emitted; and the call that awaits the
\* buffer edit of a text delta emits only once that edit has been applied.
C16_ChangedAfterEdit ==
  [][/\ Ended' =>
          \A k \in 1..Len(ItemEvents(batch'.events)) :
            Count(Emitted', Changed(getFullPath(ItemEvents(batch'.events)[k].item))) >= 1
     /\ (batch.pc = "await" /\ batch'.pc = "done")
          => (Head(hostQueue).type = "reply" /\ Head(hostQueue).ok = "applied")]_vars

\* C17: readDirectory of a folder returns one (name, type) pair per id of the
\* folder's stored item list, in the stored order whatever the names; stat of
\* a folder reports Directory and the length of that list, stat of a text
\* item reports File and the number of characters of its text.
C17_ListingAndStat ==
  [][(lastOp' # lastOp /\ lastOp'.ready /\ lastOp'.err = "none") =>
       LET itemId == itemIdAt(lastOp'.path)
           stored == Item(itemId).items
       IN /\ lastOp'.op = "readDirectory" =>
               /\ Len(lastOp'.entries) = Len(stored)
               /\ \A k \in 1..Len(stored) :
                    /\ lastOp'.entries[k][1] = Item(stored[k]).name
                    /\ lastOp'.entries[k][2] =
                         CASE Item(stored[k]).kind = "folder" -> "Directory"
                           [] Item(stored[k]).kind = "text" -> "File"
                           [] OTHER -> "Unknown"
          /\ (lastOp'.op = "stat" /\ Item(itemId).kind = "folder") =>
               (lastOp'.type = "Directory" /\ lastOp'.size = Len(stored))
          /\ (lastOp'.op = "stat" /\ Item(itemId).kind = "text") =>
               (lastOp'.type = "File" /\ lastOp'.size = Len(text))]_vars

\* the root folder was listed: its three items in the stored order, which is
\* not the order of their names
C17_Witness ==
  /\ lastOp.op = "readDirectory"
  /\ lastOp.ready
  /\ lastOp.path = <<>>
  /\ lastOp.entries = << <<"main.tex", "File">>, <<"figs", "Directory">>,
                         <<"a.png", "Unknown">> >>

\* C18: after any sequence of ndnws.init and ndnws.reset, also with an
\* initialize() started while another is awaiting, at most one listener and
\* at most one observer are active, so the listeners' run on the notification
\* of a user edit of a buffer that held the item's text leaves the text equal
\* to the buffer after that edit, and a notification delivered while no
\* document is held leaves the text as it is.
C18_SingleRegistration ==
  [][/\ life'.listeners <= 1
     /\ Cardinality(ActiveObservers') <= 1
     /\ (LocalStep /\ ItemReady /\ ~disableLocalUpdates
           /\ text = Head(hostQueue).pre)
          => text' = Head(hostQueue).post
     /\ (LocalStep /\ life.rootDoc = 0) => text' = text]_vars

\* C19: the notification of every user edit is translated into a transaction
\* on the tree, also when it is delivered while the flag is set for a remote
\* delta; and with nothing left to deliver or to settle the buffer of the
\* open editor holds the item's text.
C19_NoLostUserEdit ==
  /\ lastLocal.kind = "user" => lastLocal.transacted
  /\ (editorOpen = "open" /\ hostQueue = <<>> /\ editReqs = <<>>)
       => buffer = text

\* C20: for every text T and offset i of it, toOffset(T, toPosition(T, i)) is
\* at most i, and is i unless i is between the \r and the \n of a \r\n pair;
\* and toPosition(T, .) never goes back as the offset grows, in the order of
\* (line, character), and has the same value at two offsets only at the two
\* sides of the \r of a \r\n pair.
C20_RoundTripAndOrder ==
  /\ calcOut.op = "roundTrip" =>
       /\ calcOut.back <= calcOut.offset
       /\ ~MidCRLF(calcText, calcOut.offset) => calcOut.back = calcOut.offset
  /\ (calcOut.op = "toPosition" /\ calcOut.offset <= Len(calcText)) =>
       \A j \in (calcOut.offset + 1)..Len(calcText) :
         LET q == indexToLineAndCharacter(calcText, j) IN
           /\ ~PosBefore(q, calcOut.pos)
           /\ q = calcOut.pos => (j = calcOut.offset + 1 /\ MidCRLF(calcText, j))

\* a round trip from the offset between the \r and the \n of a pair, which
\* comes back one short
C20_Witness ==
  /\ calcOut.op = "roundTrip"
  /\ calcText = <<"a", CR, LF>>
  /\ calcOut.offset = 2
  /\ calcOut.pos = Pos(0, 1)
  /\ calcOut.back = 1

====
